---- MODULE Spec2Model ----
(***************************************************************************)
(* Model of the junction-caps capabilities middleware                      *)
(* (lib/middleware/capabilities.js): the Handler that receives presence    *)
(* stanzas carrying entity capabilities (XEP-0115), sends disco#info       *)
(* queries for what is not cached, and emits a 'capabilities' event once   *)
(* the main capabilities and every listed extension are known.             *)
(*                                                                         *)
(* JavaScript objects are modelled as functions with a finite domain of    *)
(* string keys: a missing key reads as undefined.  Objects that are shared *)
(* by reference (the pending-buddy records and the arrays stored in        *)
(* _pendingExt) live in a heap and are named by integer references.        *)
(* Keys are assumed not to collide with Object.prototype property names.   *)
(*                                                                         *)
(* The handler consumes stanzas already decorated by an upstream parser:   *)
(* a presence stanza carries stanza.caps, an iq stanza carries             *)
(* stanza.capabilities or nothing.                                         *)
(*                                                                         *)
(* Spec is the behaviour of one Handler.  CacheSpec is the behaviour of a  *)
(* MemoryCache (lib/cache/memory.js) used on its own; the Handler keeps    *)
(* its own caches and never calls it.                                      *)
(***************************************************************************)
EXTENDS Integers, Sequences, FiniteSets, TLC

----------------------------------------------------------------------------
(* Bounds of the model *)

\* number of presence stanzas handled in one behaviour
MaxPresence == 2

\* number of disco#info queries sent in one behaviour
MaxQueries == 3

\* event counters of the observer saturate here
MaxCount == 2

----------------------------------------------------------------------------
(* Input universe *)

Peers == {"p1@x", "p2@x"}

Nodes == {"app"}

Vers == {"v1", "v2"}

\* values of caps.ext: an absent ext attribute and an empty list behave alike
ExtLists == { <<>>, <<"e1">>, <<"e1", "e2">> }

\* The JavaScript value undefined.
Undefined == [undefined |-> TRUE]

\* A JavaScript string held in a field that may also be undefined.
Str(s) == [str |-> s]

----------------------------------------------------------------------------
(* JavaScript object helpers *)

Range(seq) == { seq[i] : i \in 1..Len(seq) }

Get(obj, k) == IF k \in DOMAIN obj THEN obj[k] ELSE Undefined

Truthy(obj, k) == k \in DOMAIN obj /\ obj[k] # Undefined

Put(obj, k, v) == [x \in DOMAIN obj \cup {k} |-> IF x = k THEN v ELSE obj[x]]

Delete(obj, k) == [x \in DOMAIN obj \ {k} |-> obj[x]]

\* Array.prototype.indexOf: 1-based index of the first occurrence, 0 if none
\* (JavaScript's -1).
RECURSIVE IndexFrom(_, _, _)
IndexFrom(arr, v, i) ==
    IF i > Len(arr) THEN 0
    ELSE IF arr[i] = v THEN i
    ELSE IndexFrom(arr, v, i + 1)

IndexOf(arr, v) == IndexFrom(arr, v, 1)

\* arr.splice(start, 1) where start is the result of indexOf: a start of -1
\* counts from the end, so the last element is removed.
Splice1(arr, idx) ==
    LET at == IF idx = 0 THEN Len(arr) ELSE idx
    IN  IF Len(arr) = 0 THEN arr
        ELSE [i \in 1..(Len(arr) - 1) |-> IF i < at THEN arr[i] ELSE arr[i + 1]]

----------------------------------------------------------------------------
(* lib/util.js *)

RECURSIVE removeDuplicatesFrom(_, _, _)
removeDuplicatesFrom(data, i, seen) ==
    IF i < 1 THEN data
    ELSE IF data[i] \in seen
         THEN removeDuplicatesFrom(Splice1(data, i), i - 1, seen)
         ELSE removeDuplicatesFrom(data, i - 1, seen \cup {data[i]})

\* variant: the duplicates are removed from a copy and the array passed in
\* is left as it is
removeDuplicates_OnCopy(data) == data

removeDuplicates(data) == removeDuplicatesFrom(data, Len(data), {})

\* members of a capabilities object that may hold undefined; the others
\* always hold an array or an object
OptionalMembers == {"node", "clientName"}

\* JSON.parse(JSON.stringify(data)) of a plain object: members whose value is
\* undefined are dropped, everything else is copied structurally.
deepClone(data) ==
    [ k \in { x \in DOMAIN data : ~(x \in OptionalMembers /\ data[x] = Undefined) } |->
        data[k] ]

----------------------------------------------------------------------------
(* capabilitiesParser: feature table and parseCommonFeatures *)

commonFeatures ==
    [ x \in { "jabber:iq:last",
              "http://jabber.org/protocol/muc",
              "http://jabber.org/protocol/ibb",
              "http://jabber.org/protocol/xhtml-im",
              "urn:xmpp:avatar:metadata+notify",
              "jabber:iq:version",
              "http://jabber.org/protocol/si/profile/file-transfer",
              "http://jabber.org/protocol/mood+notify",
              "urn:xmpp:jingle:apps:rtp:0",
              "urn:xmpp:jingle:apps:rtp:1",
              "urn:xmpp:jingle:apps:rtp:audio",
              "urn:xmpp:jingle:apps:rtp:video",
              "urn:xmpp:attention:0",
              "urn:xmpp:bob",
              "http://www.google.com/xmpp/protocol/camera/v1",
              "http://www.google.com/xmpp/protocol/video/v1",
              "http://www.google.com/xmpp/protocol/voice/v1",
              "google:mail:notify" } |->
      CASE x = "jabber:iq:last" -> "lastActivity"
        [] x = "http://jabber.org/protocol/muc" -> "muc"
        [] x = "http://jabber.org/protocol/ibb" -> "byteStreams"
        [] x = "http://jabber.org/protocol/xhtml-im" -> "xhtml"
        [] x = "urn:xmpp:avatar:metadata+notify" -> "avatar"
        [] x = "jabber:iq:version" -> "version"
        [] x = "http://jabber.org/protocol/si/profile/file-transfer" -> "siFileTransfer"
        [] x = "http://jabber.org/protocol/mood+notify" -> "mood"
        [] x = "urn:xmpp:jingle:apps:rtp:0" -> "rtpv0"
        [] x = "urn:xmpp:jingle:apps:rtp:1" -> "rtpv1"
        [] x = "urn:xmpp:jingle:apps:rtp:audio" -> "rtpaudio"
        [] x = "urn:xmpp:jingle:apps:rtp:video" -> "rtpvideo"
        [] x = "urn:xmpp:attention:0" -> "attention"
        [] x = "urn:xmpp:bob" -> "bob"
        [] x = "http://www.google.com/xmpp/protocol/camera/v1" -> "googleCamera"
        [] x = "http://www.google.com/xmpp/protocol/video/v1" -> "googleVideo"
        [] x = "http://www.google.com/xmpp/protocol/voice/v1" -> "googleVoice"
        [] x = "google:mail:notify" -> "gmailNotify" ]

\* rawFeatures.forEach: a raw feature found in the table sets its name
RECURSIVE markFeatures(_, _, _)
markFeatures(features, rawFeatures, i) ==
    IF i > Len(rawFeatures) THEN features
    ELSE markFeatures(IF rawFeatures[i] \in DOMAIN commonFeatures
                      THEN Put(features, commonFeatures[rawFeatures[i]], TRUE)
                      ELSE features,
                      rawFeatures, i + 1)

\* every name of the table is first set to false
parseCommonFeatures(rawFeatures) ==
    markFeatures([ name \in { commonFeatures[x] : x \in DOMAIN commonFeatures } |-> FALSE ],
                 rawFeatures, 1)

----------------------------------------------------------------------------
(* Stanzas handed to the handler *)

\* stanza.capabilities of a disco#info result as the parser builds it; the
\* node is what the responder reports, undefined when it omits the attribute.
ParsedCaps(node, rawFeatures) ==
    [ node        |-> node,
      rawFeatures |-> rawFeatures,
      features    |-> parseCommonFeatures(rawFeatures) ]

\* What each peer's client answers to a disco#info query, whatever node it
\* is asked about.  The first always reports node app#v1, the second omits
\* the node attribute and lists a feature that is not in the table.
PayloadOf(peer) ==
    IF peer = "p1@x"
    THEN ParsedCaps(Str("app#v1"), <<"jabber:iq:version">>)
    ELSE ParsedCaps(Undefined, <<"http://jabber.org/protocol/muc", "urn:xmpp:ping",
                                 "jabber:iq:version">>)

Payloads == { PayloadOf(p) : p \in Peers }

\* a presence stanza with entity capabilities
Presences ==
    { [from |-> p, caps |-> [node |-> n, ver |-> v, ext |-> e]] :
        p \in Peers, n \in Nodes, v \in Vers, e \in ExtLists }

FullNode(caps) == caps.node \o "#" \o caps.ver

RequestId(n) == "caps-" \o ToString(n)

----------------------------------------------------------------------------
(* Handler: the fields of one Handler instance, threaded through the       *)
(* methods as a record h.  h.out and h.emitted collect what the current    *)
(* stanza handler sent and emitted; h.threw is set when an exception       *)
(* escapes, after which the rest of the handler does not run.              *)

Handler ==
    [ cache          |-> <<>>,
      extCache       |-> <<>>,
      pending        |-> <<>>,
      pendingExt     |-> <<>>,
      pendingBuddies |-> <<>>,
      iqRequests     |-> <<>>,
      iqCount        |-> 0,
      objs           |-> <<>>,
      arrs           |-> <<>>,
      out            |-> <<>>,
      emitted        |-> <<>>,
      threw          |-> FALSE ]

Throw(h) == [h EXCEPT !.threw = TRUE]

\* mainCaps.rawFeatures.concat(this._extCache[fullNode][ext]) for each ext;
\* concat of undefined appends one undefined element.
RECURSIVE concatExtensions(_, _, _, _)
concatExtensions(rawFeatures, exts, i, extCacheOfNode) ==
    IF i > Len(exts) THEN rawFeatures
    ELSE concatExtensions(
            rawFeatures \o (IF exts[i] \in DOMAIN extCacheOfNode
                            THEN extCacheOfNode[exts[i]]
                            ELSE <<"undefined">>),
            exts, i + 1, extCacheOfNode)

\* the extensions of caps found in the extension cache of its fullNode
CachedExts(h, caps) ==
    { caps.ext[i] : i \in { j \in 1..Len(caps.ext) :
                              /\ FullNode(caps) \in DOMAIN h.extCache
                              /\ caps.ext[j] \in DOMAIN h.extCache[FullNode(caps)] } }

\* mainCaps names an object: the clone made by deepClone, while the cached
\* object stays reachable through this._cache[fullNode].  The assignments to
\* mainCaps.rawFeatures and mainCaps.features, and the in-place
\* removeDuplicates, change the object mainCaps names; the cache holds the
\* cached object as it is afterwards.
\* The event carries, beside the arguments of emit, the presence it was
\* built from and which of its extensions were cached at that moment.
EmitFrom(h, presence, mainCaps) ==
    LET caps     == presence.caps
        fullNode == FullNode(caps)
        objects  == [ cached |-> h.cache[fullNode],
                      clone  |-> deepClone(h.cache[fullNode]) ]
        merged   == IF Len(caps.ext) > 0
                    THEN concatExtensions(objects[mainCaps].rawFeatures, caps.ext, 1,
                                          h.extCache[fullNode])
                    ELSE objects[mainCaps].rawFeatures
        deduped  == removeDuplicates(merged)
        after    == [objects EXCEPT ![mainCaps].rawFeatures = deduped,
                                    ![mainCaps].features = parseCommonFeatures(deduped)]
    IN  [h EXCEPT !.cache = Put(@, fullNode, after.cached),
                  !.emitted = Append(@, [jid      |-> presence.from,
                                         caps     |-> after[mainCaps],
                                         presence |-> presence,
                                         cached   |-> CachedExts(h, caps)])]

\* variant: the extensions are merged into the cached object itself
_emitCapabilitiesEvent_NoClone(h, presence) ==
    LET fullNode == FullNode(presence.caps)
    IN  IF h.threw THEN h
        ELSE IF ~Truthy(h.cache, fullNode) THEN Throw(h)
        ELSE IF Len(presence.caps.ext) > 0 /\ fullNode \notin DOMAIN h.extCache THEN Throw(h)
        ELSE EmitFrom(h, presence, "cached")

\* variant: the features of the cached main capabilities are emitted, not
\* parsed again from the merged list
_emitCapabilitiesEvent_NoReparse(h, presence) ==
    LET fullNode == FullNode(presence.caps)
    IN  IF h.threw THEN h
        ELSE IF ~Truthy(h.cache, fullNode) THEN Throw(h)
        ELSE IF Len(presence.caps.ext) > 0 /\ fullNode \notin DOMAIN h.extCache THEN Throw(h)
        ELSE LET r == EmitFrom(h, presence, "clone")
             IN  [r EXCEPT !.emitted[Len(r.emitted)].caps.features =
                              h.cache[fullNode].features]

_emitCapabilitiesEvent(h, presence) ==
    LET fullNode == FullNode(presence.caps)
    IN  IF h.threw THEN h
        ELSE IF ~Truthy(h.cache, fullNode) THEN Throw(h)
        ELSE IF Len(presence.caps.ext) > 0 /\ fullNode \notin DOMAIN h.extCache THEN Throw(h)
        ELSE EmitFrom(h, presence, "clone")

\* variant: emits as soon as the main capabilities are cached, without
\* looking at the extensions still pending
_emitEventIfFullyLoaded_MainOnly(h, jid) ==
    IF h.threw THEN h
    ELSE IF jid \notin DOMAIN h.pendingBuddies THEN Throw(h)
    ELSE
        LET presence == h.objs[h.pendingBuddies[jid]].originalPresence
        IN  IF Truthy(h.cache, FullNode(presence.caps))
            THEN _emitCapabilitiesEvent(h, presence)
            ELSE h

_emitEventIfFullyLoaded(h, jid) ==
    IF h.threw THEN h
    ELSE IF jid \notin DOMAIN h.pendingBuddies THEN Throw(h)
    ELSE
        LET pendingBuddy == h.objs[h.pendingBuddies[jid]]
            presence     == pendingBuddy.originalPresence
            fullCapsNode == FullNode(presence.caps)
        IN  IF Truthy(h.cache, fullCapsNode) /\ Len(pendingBuddy.pendingExts) = 0
            THEN _emitCapabilitiesEvent(h, presence)
            ELSE h

\* variant: the id is built from the counter without incrementing it
_sendDiscoQuery_SameCount(h, stanza, node, extraData) ==
    LET id      == RequestId(h.iqCount)
        request == [ type     |-> extraData.type,
                     ext      |-> extraData.ext,
                     node     |-> stanza.caps.node,
                     ver      |-> stanza.caps.ver,
                     fullNode |-> FullNode(stanza.caps) ]
    IN  [h EXCEPT !.iqRequests = Put(@, id, request),
                  !.out = Append(@, [to |-> stanza.from, id |-> id, node |-> node])]

_sendDiscoQuery(h, stanza, node, extraData) ==
    LET count   == h.iqCount + 1
        id      == RequestId(count)
        request == [ type     |-> extraData.type,
                     ext      |-> extraData.ext,
                     node     |-> stanza.caps.node,
                     ver      |-> stanza.caps.ver,
                     fullNode |-> FullNode(stanza.caps) ]
    IN  [h EXCEPT !.iqCount = count,
                  !.iqRequests = Put(@, id, request),
                  !.out = Append(@, [to |-> stanza.from, id |-> id, node |-> node])]

\* variant: sends an extension query for every presence, whether or not one
\* was already sent
_getExtensionFromPresence_NoCoalesce(h, stanza, ext) ==
    LET fullNode     == FullNode(stanza.caps)
        pendingBuddy == h.pendingBuddies[stanza.from]
        arr == Len(h.arrs) + 1
        h0  == [h EXCEPT !.arrs = Append(@, <<>>),
                         !.pendingExt = Put(@, fullNode,
                                            Put(h.pendingExt[fullNode], ext, arr))]
        h1  == _sendDiscoQuery(h0, stanza, stanza.caps.node \o "#" \o ext,
                               [type |-> "ext", ext |-> ext])
    IN  [h1 EXCEPT !.arrs[arr] = Append(@, pendingBuddy),
                   !.objs[pendingBuddy].pendingExts = Append(@, arr)]

\* variant: the extension query asks for fullNode#ext instead of node#ext
_getExtensionFromPresence_FullNodePrefix(h, stanza, ext) ==
    LET fullNode     == FullNode(stanza.caps)
        pendingBuddy == h.pendingBuddies[stanza.from]
        h1 == IF ext \notin DOMAIN h.pendingExt[fullNode]
              THEN LET arr == Len(h.arrs) + 1
                       h0  == [h EXCEPT !.arrs = Append(@, <<>>),
                                        !.pendingExt = Put(@, fullNode,
                                                           Put(h.pendingExt[fullNode], ext, arr))]
                   IN  _sendDiscoQuery(h0, stanza, fullNode \o "#" \o ext,
                                       [type |-> "ext", ext |-> ext])
              ELSE h
        arrRef == h1.pendingExt[fullNode][ext]
    IN  [h1 EXCEPT !.arrs[arrRef] = Append(@, pendingBuddy),
                   !.objs[pendingBuddy].pendingExts = Append(@, arrRef)]

_getExtensionFromPresence(h, stanza, ext) ==
    LET fullNode     == FullNode(stanza.caps)
        pendingBuddy == h.pendingBuddies[stanza.from]
        h1 == IF ext \notin DOMAIN h.pendingExt[fullNode]
              THEN LET arr == Len(h.arrs) + 1
                       h0  == [h EXCEPT !.arrs = Append(@, <<>>),
                                        !.pendingExt = Put(@, fullNode,
                                                           Put(h.pendingExt[fullNode], ext, arr))]
                   IN  _sendDiscoQuery(h0, stanza, stanza.caps.node \o "#" \o ext,
                                       [type |-> "ext", ext |-> ext])
              ELSE h
        arrRef == h1.pendingExt[fullNode][ext]
    IN  [h1 EXCEPT !.arrs[arrRef] = Append(@, pendingBuddy),
                   !.objs[pendingBuddy].pendingExts = Append(@, arrRef)]

\* variant: sends a main query for every presence, whether or not one was
\* already sent
_getCapabilitiesFromPresence_NoCoalesce(h, stanza) ==
    LET fullNode == FullNode(stanza.caps)
        h1 == _sendDiscoQuery(
                  [h EXCEPT !.pending = Put(@, fullNode,
                                            [ node    |-> stanza.caps.node,
                                              ver     |-> stanza.caps.ver,
                                              buddies |-> <<>> ])],
                  stanza, fullNode, [type |-> "caps", ext |-> Undefined])
    IN  [h1 EXCEPT !.pending[fullNode].buddies = Append(@, stanza.from)]

_getCapabilitiesFromPresence(h, stanza) ==
    LET fullNode == FullNode(stanza.caps)
        h1 == IF fullNode \notin DOMAIN h.pending
              THEN _sendDiscoQuery(
                       [h EXCEPT !.pending = Put(@, fullNode,
                                                 [ node    |-> stanza.caps.node,
                                                   ver     |-> stanza.caps.ver,
                                                   buddies |-> <<>> ])],
                       stanza, fullNode, [type |-> "caps", ext |-> Undefined])
              ELSE h
    IN  [h1 EXCEPT !.pending[fullNode].buddies = Append(@, stanza.from)]

RECURSIVE getExtensions(_, _, _, _)
getExtensions(h, stanza, exts, i) ==
    IF i > Len(exts) THEN h
    ELSE getExtensions(_getExtensionFromPresence(h, stanza, exts[i]), stanza, exts, i + 1)

\* variant: registers the pending buddy before looking at the caches
_handlePresence_AlwaysRegister(h, stanza) ==
    IF stanza.caps = Undefined THEN h
    ELSE
        LET caps     == stanza.caps
            fullNode == FullNode(caps)
            uncachedExts ==
                SelectSeq(caps.ext,
                          LAMBDA ext : \/ fullNode \notin DOMAIN h.extCache
                                       \/ ext \notin DOMAIN h.extCache[fullNode])
            buddy == Len(h.objs) + 1
            h1 == [h EXCEPT
                     !.objs = Append(@, [ jid              |-> stanza.from,
                                          pendingExts      |-> <<>>,
                                          originalPresence |-> stanza ]),
                     !.pendingBuddies = Put(@, stanza.from, buddy)]
        IN  IF Truthy(h.cache, fullNode) /\ Len(uncachedExts) = 0
            THEN _emitCapabilitiesEvent(h1, stanza)
            ELSE
                LET h2 == IF ~Truthy(h1.cache, fullNode)
                          THEN _getCapabilitiesFromPresence(h1, stanza)
                          ELSE h1
                IN  IF Len(uncachedExts) > 0
                    THEN getExtensions(
                             IF fullNode \notin DOMAIN h2.pendingExt
                             THEN [h2 EXCEPT !.pendingExt = Put(@, fullNode, <<>>)]
                             ELSE h2,
                             stanza, uncachedExts, 1)
                    ELSE h2

\* stanza.caps is Undefined for a presence without a capabilities child
_handlePresence(h, stanza) ==
    IF stanza.caps = Undefined THEN h
    ELSE
        LET caps     == stanza.caps
            fullNode == FullNode(caps)
            uncachedExts ==
                SelectSeq(caps.ext,
                          LAMBDA ext : \/ fullNode \notin DOMAIN h.extCache
                                       \/ ext \notin DOMAIN h.extCache[fullNode])
        IN  IF Truthy(h.cache, fullNode) /\ Len(uncachedExts) = 0
            THEN _emitCapabilitiesEvent(h, stanza)
            ELSE
                LET buddy == Len(h.objs) + 1
                    h1 == [h EXCEPT
                             !.objs = Append(@, [ jid              |-> stanza.from,
                                                  pendingExts      |-> <<>>,
                                                  originalPresence |-> stanza ]),
                             !.pendingBuddies = Put(@, stanza.from, buddy)]
                    h2 == IF ~Truthy(h1.cache, fullNode)
                          THEN _getCapabilitiesFromPresence(h1, stanza)
                          ELSE h1
                IN  IF Len(uncachedExts) > 0
                    THEN getExtensions(
                             IF fullNode \notin DOMAIN h2.pendingExt
                             THEN [h2 EXCEPT !.pendingExt = Put(@, fullNode, <<>>)]
                             ELSE h2,
                             stanza, uncachedExts, 1)
                    ELSE h2

RECURSIVE notifyExtBuddies(_, _, _, _)
notifyExtBuddies(h, pendingExt, waiting, i) ==
    IF h.threw \/ i > Len(waiting) THEN h
    ELSE
        LET buddy == waiting[i]
            exts  == h.objs[buddy].pendingExts
            h1    == [h EXCEPT !.objs[buddy].pendingExts =
                                   Splice1(exts, IndexOf(exts, pendingExt))]
        IN  notifyExtBuddies(_emitEventIfFullyLoaded(h1, h1.objs[buddy].jid),
                             pendingExt, waiting, i + 1)

\* variant: a reply without capabilities stores nothing, but the waiting
\* buddies are still notified and the pending entry is deleted
_handleIQExt_NotifyOnError(h, stanza, request) ==
    LET caps     == stanza.capabilities
        fullNode == request.fullNode
    IN  IF fullNode \notin DOMAIN h.pendingExt THEN Throw(h)
        ELSE
            LET h1 == IF fullNode \notin DOMAIN h.extCache
                      THEN [h EXCEPT !.extCache = Put(@, fullNode, <<>>)]
                      ELSE h
                h2 == IF caps = Undefined THEN h1
                      ELSE [h1 EXCEPT !.extCache =
                              Put(@, fullNode,
                                  Put(h1.extCache[fullNode], request.ext, caps.rawFeatures))]
            IN  IF request.ext \notin DOMAIN h2.pendingExt[fullNode] THEN Throw(h2)
                ELSE
                    LET pendingExt == h2.pendingExt[fullNode][request.ext]
                        h3 == notifyExtBuddies(h2, pendingExt, h2.arrs[pendingExt], 1)
                    IN  IF h3.threw THEN h3
                        ELSE [h3 EXCEPT !.pendingExt =
                                Put(@, fullNode, Delete(h3.pendingExt[fullNode], request.ext))]

_handleIQExt(h, stanza, request) ==
    LET caps     == stanza.capabilities
        fullNode == request.fullNode
    IN  IF fullNode \notin DOMAIN h.pendingExt THEN Throw(h)
        ELSE
            LET h1 == IF fullNode \notin DOMAIN h.extCache
                      THEN [h EXCEPT !.extCache = Put(@, fullNode, <<>>)]
                      ELSE h
            IN  IF caps = Undefined THEN Throw(h1)
                ELSE
                    LET h2 == [h1 EXCEPT !.extCache =
                                 Put(@, fullNode,
                                     Put(h1.extCache[fullNode], request.ext, caps.rawFeatures))]
                    IN  IF request.ext \notin DOMAIN h2.pendingExt[fullNode] THEN Throw(h2)
                        ELSE
                            LET pendingExt == h2.pendingExt[fullNode][request.ext]
                                h3 == notifyExtBuddies(h2, pendingExt, h2.arrs[pendingExt], 1)
                            IN  IF h3.threw THEN h3
                                ELSE [h3 EXCEPT !.pendingExt =
                                        Put(@, fullNode, Delete(h3.pendingExt[fullNode], request.ext))]

\* variant: only the first waiting buddy is notified
notifyBuddies_FirstOnly(h, buddies, i) ==
    IF h.threw \/ i > Len(buddies) \/ i > 1 THEN h
    ELSE _emitEventIfFullyLoaded(h, buddies[i])

RECURSIVE notifyBuddies(_, _, _)
notifyBuddies(h, buddies, i) ==
    IF h.threw \/ i > Len(buddies) THEN h
    ELSE notifyBuddies(_emitEventIfFullyLoaded(h, buddies[i]), buddies, i + 1)

\* variant: the capabilities are cached under the node the response reports
_handleIQCaps_ByReportedNode(h, stanza, request) ==
    LET caps == stanza.capabilities
        node == IF caps = Undefined \/ caps.node = Undefined
                THEN "undefined"
                ELSE caps.node.str
        h1   == [h EXCEPT !.cache = Put(@, node, caps)]
    IN  IF node \in DOMAIN h1.pending
        THEN LET h2 == notifyBuddies(h1, h1.pending[node].buddies, 1)
             IN  IF h2.threw THEN h2
                 ELSE [h2 EXCEPT !.pending = Delete(@, node)]
        ELSE h1

_handleIQCaps(h, stanza, request) ==
    LET caps == stanza.capabilities
        node == request.fullNode
        h1   == [h EXCEPT !.cache = Put(@, node, caps)]
    IN  IF node \in DOMAIN h1.pending
        THEN LET h2 == notifyBuddies(h1, h1.pending[node].buddies, 1)
             IN  IF h2.threw THEN h2
                 ELSE [h2 EXCEPT !.pending = Delete(@, node)]
        ELSE h1

\* variant: no check that the id is tracked; reading request.type of an
\* untracked id raises a TypeError
_handleIQ_NoRequestCheck(h, stanza) ==
    LET id == stanza.id
    IN  IF id \notin DOMAIN h.iqRequests THEN Throw(h)
        ELSE
            LET request == h.iqRequests[id]
                h1 == IF request.type = "ext"
                      THEN _handleIQExt(h, stanza, request)
                      ELSE _handleIQCaps(h, stanza, request)
            IN  IF h1.threw THEN h1
                ELSE [h1 EXCEPT !.iqRequests = Delete(@, id)]

\* variant: the tracked request is kept after its response was handled
_handleIQ_KeepRequest(h, stanza) ==
    LET id == stanza.id
    IN  IF id \notin DOMAIN h.iqRequests THEN h
        ELSE
            LET request == h.iqRequests[id]
            IN  IF request.type = "ext"
                THEN _handleIQExt(h, stanza, request)
                ELSE _handleIQCaps(h, stanza, request)

\* stanza.capabilities is Undefined when the parser attached nothing (an
\* error reply, or a reply it did not recognise)
_handleIQ(h, stanza) ==
    LET id == stanza.id
    IN  IF id \notin DOMAIN h.iqRequests THEN h
        ELSE
            LET request == h.iqRequests[id]
                h1 == IF request.type = "ext"
                      THEN _handleIQExt(h, stanza, request)
                      ELSE _handleIQCaps(h, stanza, request)
            IN  IF h1.threw THEN h1
                ELSE [h1 EXCEPT !.iqRequests = Delete(@, id)]

----------------------------------------------------------------------------
(* lib/cache/memory.js: MemoryCache, a cache class of its own that the     *)
(* Handler does not use.  cache is the record of the instance's fields;    *)
(* the getters return what they pass to their callback.                    *)

MemoryCache == [ _capsCache |-> <<>>, _extCache |-> <<>> ]

MemoryCache_getCapabilities(cache, node) == Get(cache._capsCache, node)

\* variant: a key that holds a value keeps it
MemoryCache_saveCapabilities_KeepFirst(cache, node, caps) ==
    IF node \in DOMAIN cache._capsCache THEN cache
    ELSE [cache EXCEPT !._capsCache = Put(@, node, caps)]

MemoryCache_saveCapabilities(cache, node, caps) ==
    [cache EXCEPT !._capsCache = Put(@, node, caps)]

MemoryCache_getExtensions(cache, node, exts) ==
    LET extCache == IF node \in DOMAIN cache._extCache THEN cache._extCache[node] ELSE <<>>
    IN  [ cachedExts   |-> [ ext \in { e \in Range(exts) : e \in DOMAIN extCache } |->
                               extCache[ext] ],
          uncachedExts |-> SelectSeq(exts, LAMBDA ext : ext \notin DOMAIN extCache) ]

MemoryCache_saveExtension(cache, node, ext, features) ==
    LET c1 == IF node \notin DOMAIN cache._extCache
              THEN [cache EXCEPT !._extCache = Put(@, node, <<>>)]
              ELSE cache
    IN  [c1 EXCEPT !._extCache = Put(@, node, Put(c1._extCache[node], ext, features))]

----------------------------------------------------------------------------
(* State *)

\* the fields of the Handler that live on between stanzas
Persistent(h) == [h EXCEPT !.out = <<>>, !.emitted = <<>>, !.threw = FALSE]

VARIABLES
    handler,      \* the Handler instance
    wire,         \* every disco#info query sent so far, in send order
    outstanding,  \* ids of queries sent and not yet answered
    lastOp,       \* which handler ran last, on which sender or id, and what it did
    lastAnn,      \* per peer: the caps of its latest presence, Undefined before the first
    annCount,     \* per peer: number of queries sent up to and including its latest presence
    emitCount,    \* per peer: events emitted for it since its latest presence (saturating)
    reannounced,  \* per peer: its latest presence came while its previous one had no event yet
    starved,      \* per peer: type of a query it waited on that got an error reply, or "none"
    resolved,     \* per peer: an event built from its latest presence was emitted since
    memoryCache,  \* a MemoryCache instance
    firstSaved,   \* per key of the MemoryCache: the value of the first save
    got,          \* what the last getter of the MemoryCache passed to its callback
    nPresence     \* number of presence stanzas with capabilities handled

handlerVars == <<handler, wire, outstanding, lastOp, lastAnn, annCount, emitCount,
                 reannounced, starved, resolved, nPresence>>

cacheVars == <<memoryCache, firstSaved, got>>

vars == <<handlerVars, cacheVars>>

\* Iq stanzas that may arrive: for every query sent so far, the answer of
\* the peer it was sent to or an error reply (no stanza.capabilities), any
\* number of times; and stanzas whose id this handler has not issued.
IqStanzas(h) ==
    UNION { { [id |-> wire[i].id, capabilities |-> c] :
                c \in {PayloadOf(wire[i].to), Undefined} } : i \in 1..Len(wire) }
    \cup
    { [id |-> i, capabilities |-> c] :
        i \in {RequestId(h.iqCount + 1), "caps"}, c \in Payloads \cup {Undefined} }

\* number of events in a sequence that are for jid
RECURSIVE CountFor(_, _)
CountFor(events, jid) ==
    IF Len(events) = 0 THEN 0
    ELSE (IF Head(events).jid = jid THEN 1 ELSE 0) + CountFor(Tail(events), jid)

Saturate(n) == IF n > MaxCount THEN MaxCount ELSE n

\* some event in the sequence is for jid and carries a presence with caps
EventFor(events, jid, caps) ==
    \E k \in 1..Len(events) : events[k].jid = jid /\ events[k].presence.caps = caps

\* the queries a handler run put on the wire, each with the node and the
\* fullNode of the presence that caused it and the request tracked for it
Sent(h, stanza) ==
    [ i \in 1..Len(h.out) |->
        [ to       |-> h.out[i].to,
          id       |-> h.out[i].id,
          node     |-> h.out[i].node,
          capsNode |-> stanza.caps.node,
          fullNode |-> FullNode(stanza.caps),
          request  |-> h.iqRequests[h.out[i].id] ] ]

Ids(msgs) == { msgs[i].id : i \in 1..Len(msgs) }

\* Unreachable heap objects are reclaimed: a buddy record that is neither
\* the current record of its jid nor held by a pending-extension array, and
\* an array no longer stored in _pendingExt.
LiveArrs(h) ==
    UNION { { h.pendingExt[n][e] : e \in DOMAIN h.pendingExt[n] } : n \in DOMAIN h.pendingExt }

LiveObjs(h) ==
    { h.pendingBuddies[j] : j \in DOMAIN h.pendingBuddies } \cup
    UNION { { h.arrs[a][i] : i \in 1..Len(h.arrs[a]) } : a \in LiveArrs(h) }

Collect(h) ==
    [h EXCEPT !.objs = [r \in DOMAIN h.objs |->
                           IF r \in LiveObjs(h) THEN h.objs[r] ELSE Undefined],
              !.arrs = [a \in DOMAIN h.arrs |->
                           IF a \in LiveArrs(h) THEN h.arrs[a] ELSE <<>>]]

\* peer jid is registered as waiting for the answer to request: its current
\* pending record is for the request's fullNode and, for a main query, the
\* jid is in the buddies of the pending entry, for an extension query, the
\* record is in the array of the pending extension
WaitingOn(h, jid, request) ==
    /\ jid \in DOMAIN h.pendingBuddies
    /\ FullNode(h.objs[h.pendingBuddies[jid]].originalPresence.caps) = request.fullNode
    /\ IF request.type = "caps"
       THEN /\ request.fullNode \in DOMAIN h.pending
            /\ \E i \in 1..Len(h.pending[request.fullNode].buddies) :
                  h.pending[request.fullNode].buddies[i] = jid
       ELSE /\ request.fullNode \in DOMAIN h.pendingExt
            /\ request.ext \in DOMAIN h.pendingExt[request.fullNode]
            /\ \E i \in 1..Len(h.arrs[h.pendingExt[request.fullNode][request.ext]]) :
                  h.arrs[h.pendingExt[request.fullNode][request.ext]][i] = h.pendingBuddies[jid]

\* what the handler run h did, for the observer
Did(h) == [emitted |-> Len(h.emitted), sent |-> Len(h.out), threw |-> h.threw]

Init ==
    /\ handler = Handler
    /\ wire = <<>>
    /\ outstanding = {}
    /\ lastOp = [op |-> "none"]
    /\ lastAnn = [p \in Peers |-> Undefined]
    /\ annCount = [p \in Peers |-> 0]
    /\ emitCount = [p \in Peers |-> 0]
    /\ reannounced = [p \in Peers |-> FALSE]
    /\ starved = [p \in Peers |-> "none"]
    /\ resolved = [p \in Peers |-> FALSE]
    /\ nPresence = 0
    /\ memoryCache = MemoryCache
    /\ firstSaved = MemoryCache
    /\ got = Undefined

\* the middleware receives a presence stanza with stanza.caps set
Presence(stanza) ==
    /\ nPresence < MaxPresence
    /\ LET h == _handlePresence(handler, stanza)
       IN  /\ h.iqCount <= MaxQueries
           /\ handler' = Persistent(Collect(h))
           /\ wire' = wire \o Sent(h, stanza)
           /\ outstanding' = outstanding \cup Ids(h.out)
           /\ lastAnn' = [lastAnn EXCEPT ![stanza.from] = stanza.caps]
           /\ annCount' = [annCount EXCEPT ![stanza.from] = h.iqCount]
           /\ emitCount' = [p \in Peers |->
                              IF p = stanza.from
                              THEN Saturate(CountFor(h.emitted, p))
                              ELSE Saturate(emitCount[p] + CountFor(h.emitted, p))]
           /\ reannounced' = [reannounced EXCEPT ![stanza.from] =
                                 lastAnn[stanza.from] # Undefined /\ emitCount[stanza.from] = 0]
           /\ starved' = [starved EXCEPT ![stanza.from] = "none"]
           /\ resolved' = [p \in Peers |->
                             IF p = stanza.from
                             THEN EventFor(h.emitted, p, stanza.caps)
                             ELSE resolved[p] \/ EventFor(h.emitted, p, lastAnn[p])]
           /\ lastOp' = [op |-> "presence", from |-> stanza.from, did |-> Did(h)]
    /\ nPresence' = nPresence + 1
    /\ UNCHANGED cacheVars

\* the middleware receives a presence stanza without a capabilities child
PresenceNoCaps(from) ==
    /\ handler' = Persistent(Collect(_handlePresence(handler, [from |-> from, caps |-> Undefined])))
    /\ lastOp' = [op |-> "presenceNoCaps"]
    /\ UNCHANGED <<wire, outstanding, lastAnn, annCount, emitCount, reannounced, starved,
                   resolved, nPresence>>
    /\ UNCHANGED cacheVars

\* the middleware receives an iq stanza
Iq(stanza) ==
    /\ LET h == _handleIQ(handler, stanza)
       IN  /\ handler' = Persistent(Collect(h))
           /\ emitCount' = [p \in Peers |-> Saturate(emitCount[p] + CountFor(h.emitted, p))]
           /\ resolved' = [p \in Peers |->
                             resolved[p] \/ EventFor(h.emitted, p, lastAnn[p])]
           /\ lastOp' = IF stanza.id \in DOMAIN handler.iqRequests
                        THEN [op |-> "iq", id |-> stanza.id,
                              error |-> (stanza.capabilities = Undefined),
                              first |-> (stanza.id \in outstanding),
                              did |-> Did(h)]
                        ELSE [op |-> "iqUntracked"]
    /\ outstanding' = outstanding \ {stanza.id}
    /\ starved' = [p \in Peers |->
                     IF /\ stanza.id \in DOMAIN handler.iqRequests
                        /\ stanza.capabilities = Undefined
                        /\ WaitingOn(handler, p, handler.iqRequests[stanza.id])
                        /\ handler.objs[handler.pendingBuddies[p]].originalPresence.caps
                             = lastAnn[p]
                     THEN handler.iqRequests[stanza.id].type
                     ELSE starved[p]]
    /\ UNCHANGED <<wire, lastAnn, annCount, reannounced, nPresence>>
    /\ UNCHANGED cacheVars

Next ==
    \/ \E stanza \in Presences : Presence(stanza)
    \/ \E from \in Peers : PresenceNoCaps(from)
    \/ \E stanza \in IqStanzas(handler) : Iq(stanza)

Spec == Init /\ [][Next]_vars

\* A run in which no error reply arrives: the middleware receives an iq
\* stanza that carries capabilities, for a query it sent (once or again) or
\* for an id it has not issued.
Success(stanza) ==
    /\ stanza.capabilities # Undefined
    /\ Iq(stanza)

\* The i-th query gets its answer.  Only the delivery of an iq stanza with
\* the id of the query takes the id out of outstanding, so a step of
\* LiveNext is an Answer(i) step exactly when it is
\* Success([id |-> wire[i].id, capabilities |-> PayloadOf(wire[i].to)]),
\* and that step is possible whenever the query is unanswered.
Answer(i) ==
    /\ i \in 1..Len(wire)
    /\ wire[i].id \in outstanding
    /\ outstanding' = outstanding \ {wire[i].id}

LiveNext ==
    \/ \E stanza \in Presences : Presence(stanza)
    \/ \E from \in Peers : PresenceNoCaps(from)
    \/ \E stanza \in IqStanzas(handler) : Success(stanza)

\* every query sent is answered, and presences stop (at MaxPresence)
LiveSpec ==
    Init /\ [][LiveNext]_vars /\ \A i \in 1..MaxQueries : WF_outstanding(Answer(i))

----------------------------------------------------------------------------
(* A MemoryCache used on its own *)

\* raw feature lists saved for an extension
FeatureLists == { PayloadOf(p).rawFeatures : p \in Peers }

SaveCapabilities(node, caps) ==
    /\ memoryCache' = MemoryCache_saveCapabilities(memoryCache, node, caps)
    /\ firstSaved' = IF node \in DOMAIN firstSaved._capsCache THEN firstSaved
                     ELSE MemoryCache_saveCapabilities(firstSaved, node, caps)
    /\ UNCHANGED <<got, handlerVars>>

SaveExtension(node, ext, features) ==
    /\ memoryCache' = MemoryCache_saveExtension(memoryCache, node, ext, features)
    /\ firstSaved' = IF node \in DOMAIN firstSaved._extCache
                        /\ ext \in DOMAIN firstSaved._extCache[node]
                     THEN firstSaved
                     ELSE MemoryCache_saveExtension(firstSaved, node, ext, features)
    /\ UNCHANGED <<got, handlerVars>>

GetCapabilities(node) ==
    /\ got' = [node |-> node, caps |-> MemoryCache_getCapabilities(memoryCache, node)]
    /\ UNCHANGED <<memoryCache, firstSaved, handlerVars>>

GetExtensions(node, exts) ==
    /\ got' = [node |-> node, exts |-> MemoryCache_getExtensions(memoryCache, node, exts)]
    /\ UNCHANGED <<memoryCache, firstSaved, handlerVars>>

CacheNext ==
    \/ \E node \in {"app#v1", "app#v2"}, caps \in Payloads : SaveCapabilities(node, caps)
    \/ \E node \in {"app#v1"}, ext \in {"e1", "e2"}, features \in FeatureLists :
          SaveExtension(node, ext, features)
    \/ \E node \in {"app#v1", "app#v2"} : GetCapabilities(node)
    \/ \E node \in {"app#v1"}, exts \in ExtLists : GetExtensions(node, exts)

CacheSpec == Init /\ [][CacheNext]_vars

----------------------------------------------------------------------------
(* Views of the state used by the properties *)

FullNodes == { n \o "#" \o v : n \in Nodes, v \in Vers }

Exts == UNION { Range(e) : e \in ExtLists }

\* a query on the wire is a main query when it asks for the fullNode itself
IsMain(m) == m.node = m.fullNode

\* the extension an extension query asks for
ExtOf(m) == CHOOSE e \in Exts : m.node = m.capsNode \o "#" \o e

\* positions in the wire of the queries sent and not yet answered
Outstanding == { i \in 1..Len(wire) : wire[i].id \in outstanding }

OutstandingMain(F) == { i \in Outstanding : IsMain(wire[i]) /\ wire[i].fullNode = F }

OutstandingExt(F, E) ==
    { i \in Outstanding : ~IsMain(wire[i]) /\ wire[i].fullNode = F /\ ExtOf(wire[i]) = E }

Cached(F) == Truthy(handler.cache, F)

ExtCached(F, E) == F \in DOMAIN handler.extCache /\ E \in DOMAIN handler.extCache[F]

\* peer p's latest presence announced fullNode F
Announced(p, F) == lastAnn[p] # Undefined /\ FullNode(lastAnn[p]) = F

TypeOK ==
    /\ handler.iqCount = Len(wire)
    /\ outstanding \subseteq Ids(wire)
    /\ \A i \in 1..Len(wire) : wire[i].id = RequestId(i)

----------------------------------------------------------------------------
(* Coalescing of queries *)

\* C1: for every fullNode F at most one main discovery query for F is sent
\* and not yet answered, however many presences announced F meanwhile.
C1_OneMainQueryOutstanding ==
    \A F \in FullNodes : Cardinality(OutstandingMain(F)) <= 1

\* two peers announced the same fullNode while its one query is outstanding
C1_Witness ==
    \E F \in FullNodes :
        /\ Cardinality(OutstandingMain(F)) = 1
        /\ \A p \in Peers : Announced(p, F)
        /\ \A i \in OutstandingMain(F) : \A p \in Peers : annCount[p] >= i

\* C2: for every fullNode F and extension E at most one extension query for
\* (F, E) is sent and not yet answered.
C2_OneExtQueryOutstanding ==
    \A F \in FullNodes, E \in Exts : Cardinality(OutstandingExt(F, E)) <= 1

\* two peers listed the same extension under the same fullNode while its one
\* query is outstanding
C2_Witness ==
    \E F \in FullNodes, E \in Exts :
        /\ Cardinality(OutstandingExt(F, E)) = 1
        /\ \A p \in Peers : Announced(p, F) /\ E \in Range(lastAnn[p].ext)
        /\ \A i \in OutstandingExt(F, E) : \A p \in Peers : annCount[p] >= i

----------------------------------------------------------------------------
(* Emission of the capabilities event *)

\* C3: between two consecutive presences of a peer, and after its last one,
\* at most one capabilities event is emitted for that peer.
C3_AtMostOneEventPerCycle ==
    \A p \in Peers : emitCount[p] <= 1

\* what the handlers would do with a stanza arriving in the current state
PresenceRun(stanza) == _handlePresence(handler, stanza)

IqRun(stanza) == _handleIQ(handler, stanza)

\* every iq stanza that can arrive: any id issued so far, the next id or a
\* foreign id, with any payload or none
AllIqStanzas ==
    { [id |-> i, capabilities |-> c] :
        i \in Ids(wire) \cup {RequestId(Len(wire) + 1), "caps"},
        c \in Payloads \cup {Undefined} }

\* an event was emitted with everything it is built from in the caches
Complete(h, ev) ==
    /\ Truthy(h.cache, FullNode(ev.presence.caps))
    /\ Range(ev.presence.caps.ext) \subseteq ev.cached

\* C4: whenever an event is emitted, the main capabilities of the fullNode
\* of the presence it is built from are cached and every extension listed
\* in that presence is in the extension cache under that fullNode.
C4_EventOnlyWhenAllCached ==
    /\ \A stanza \in Presences :
        LET r == PresenceRun(stanza)
        IN  \A ev \in Range(r.emitted) : Complete(r, ev)
    /\ \A stanza \in AllIqStanzas :
        LET r == IqRun(stanza)
        IN  \A ev \in Range(r.emitted) : Complete(r, ev)

\* a response completed a peer that listed two extensions
C4_Witness ==
    /\ lastOp.op = "iq"
    /\ lastOp.did.emitted >= 1
    /\ \E p \in Peers :
        /\ lastAnn[p] # Undefined
        /\ Len(lastAnn[p].ext) = 2
        /\ emitCount[p] >= 1
        /\ Cached(FullNode(lastAnn[p]))
        /\ \A e \in Range(lastAnn[p].ext) : ExtCached(FullNode(lastAnn[p]), e)

----------------------------------------------------------------------------
(* Correlation of responses *)

ExtCacheOf(h, F) == IF F \in DOMAIN h.extCache THEN h.extCache[F] ELSE <<>>

\* C6: the payload of a response to a tracked query is stored under the
\* fullNode (and extension) of the presence that caused the query with that
\* id, whatever node the response reports and whichever other queries are
\* still unanswered.
C6_StoredByCorrelationId ==
    \A i \in 1..Len(wire) :
        wire[i].id \in DOMAIN handler.iqRequests =>
            \A c \in Payloads :
                LET r == IqRun([id |-> wire[i].id, capabilities |-> c])
                    F == wire[i].fullNode
                IN  IF IsMain(wire[i])
                    THEN /\ r.cache = Put(handler.cache, F, c)
                         /\ r.extCache = handler.extCache
                    ELSE /\ r.cache = handler.cache
                         /\ r.extCache = Put(handler.extCache, F,
                                             Put(ExtCacheOf(handler, F), ExtOf(wire[i]),
                                                 c.rawFeatures))

\* the response to the second query arrived before the response to the
\* first, and reports a node other than the one it was asked about
C6_Witness ==
    /\ lastOp.op = "iq"
    /\ lastOp.id = RequestId(2)
    /\ RequestId(1) \in outstanding
    /\ IsMain(wire[2])
    /\ Cached(wire[2].fullNode)
    /\ handler.cache[wire[2].fullNode].node # Str(wire[2].fullNode)

\* C7: a cached capability set, and a cached extension entry, is never
\* changed by any presence or iq stanza handled later.
C7_CacheWriteOnce ==
    \A r \in { PresenceRun(stanza) : stanza \in Presences } \cup
             { IqRun(stanza) : stanza \in AllIqStanzas } :
        /\ \A F \in DOMAIN handler.cache :
              Cached(F) => F \in DOMAIN r.cache /\ r.cache[F] = handler.cache[F]
        /\ \A F \in DOMAIN handler.extCache :
              \A E \in DOMAIN handler.extCache[F] :
                  /\ F \in DOMAIN r.extCache
                  /\ E \in DOMAIN r.extCache[F]
                  /\ r.extCache[F][E] = handler.extCache[F][E]

\* a second response was stored while an earlier one stays cached with a
\* different payload
C7_Witness ==
    /\ lastOp.op = "iq"
    /\ ~lastOp.error
    /\ \E F, G \in DOMAIN handler.cache :
        /\ Cached(F)
        /\ Cached(G)
        /\ handler.cache[F] # handler.cache[G]

----------------------------------------------------------------------------
(* Scenarios *)

\* peer p's latest presence announced fullNode F with extension list exts
\* when query number i had already been sent
WaitsSince(p, F, i) == Announced(p, F) /\ annCount[p] >= i

\* C8: a presence announcing an uncached fullNode without extensions sends
\* one main query if none is outstanding for it and none otherwise; and the
\* successful response to that query emits, while it is handled, an event
\* for every peer whose latest presence announced that fullNode without
\* extensions since the query was sent.
C8_AllWaitingPeersResolved ==
    /\ \A stanza \in Presences :
        LET F == FullNode(stanza.caps)
            r == PresenceRun(stanza)
        IN  (~Cached(F) /\ Len(stanza.caps.ext) = 0) =>
                IF OutstandingMain(F) = {}
                THEN /\ Len(r.out) = 1
                     /\ r.out[1].node = F
                ELSE Len(r.out) = 0
    /\ \A i \in Outstanding :
        IsMain(wire[i]) =>
            LET r == IqRun([id |-> wire[i].id, capabilities |-> PayloadOf(wire[i].to)])
            IN  \A p \in Peers :
                    (WaitsSince(p, wire[i].fullNode, i) /\ Len(lastAnn[p].ext) = 0)
                        => CountFor(r.emitted, p) >= 1

\* two peers announced the same fullNode, one query was sent, and its
\* response emitted an event for both
C8_Witness ==
    /\ lastOp.op = "iq"
    /\ lastOp.did.emitted = 2
    /\ Len(wire) = 1
    /\ \A p \in Peers :
        /\ Announced(p, wire[1].fullNode)
        /\ Len(lastAnn[p].ext) = 0
        /\ emitCount[p] = 1

\* every extension of the presence is in the extension cache
AllExtsCached(caps) == \A e \in Range(caps.ext) : ExtCached(FullNode(caps), e)

\* C9: a presence whose fullNode is cached and whose extensions are all
\* cached emits the event for its sender while it is handled, sends no
\* query, and leaves the pending buddies, the pending main and extension
\* entries and the tracked requests unchanged.
C9_FastPath ==
    \A stanza \in Presences :
        (Cached(FullNode(stanza.caps)) /\ AllExtsCached(stanza.caps)) =>
            LET r == PresenceRun(stanza)
            IN  /\ Len(r.emitted) = 1
                /\ r.emitted[1].jid = stanza.from
                /\ r.emitted[1].presence = stanza
                /\ Len(r.out) = 0
                /\ ~r.threw
                /\ r.pendingBuddies = handler.pendingBuddies
                /\ r.objs = handler.objs
                /\ r.pending = handler.pending
                /\ r.pendingExt = handler.pendingExt
                /\ r.arrs = handler.arrs
                /\ r.iqRequests = handler.iqRequests
                /\ r.iqCount = handler.iqCount

\* a presence listing an extension took the fast path
C9_Witness ==
    /\ lastOp.op = "presence"
    /\ lastOp.did.emitted = 1
    /\ lastOp.did.sent = 0
    /\ Len(lastAnn[lastOp.from].ext) > 0
    /\ emitCount[lastOp.from] = 1

\* the extensions of caps that are not cached, as a set
UncachedExts(caps) == { e \in Range(caps.ext) : ~ExtCached(FullNode(caps), e) }

\* C10: a presence whose fullNode is cached and which lists one extension
\* that is neither cached nor in flight sends no main query and exactly one
\* extension query, registers the peer as pending and emits nothing; no
\* event is emitted for the peer while that extension is uncached; and the
\* successful response to the extension query emits the peer's event.
C10_CachedMainUncachedExt ==
    /\ \A stanza \in Presences :
        LET F == FullNode(stanza.caps)
            r == PresenceRun(stanza)
        IN  \A E \in Exts :
                ( /\ Cached(F)
                  /\ UncachedExts(stanza.caps) = {E}
                  /\ OutstandingExt(F, E) = {} ) =>
                    /\ Len(r.out) = 1
                    /\ r.out[1].node = stanza.caps.node \o "#" \o E
                    /\ r.out[1].to = stanza.from
                    /\ Len(r.emitted) = 0
                    /\ stanza.from \in DOMAIN r.pendingBuddies
                    /\ r.objs[r.pendingBuddies[stanza.from]].originalPresence = stanza
    /\ \A p \in Peers :
        (lastAnn[p] # Undefined /\ Cached(FullNode(lastAnn[p])) /\ UncachedExts(lastAnn[p]) # {})
            => emitCount[p] = 0
    /\ \A i \in Outstanding :
        ~IsMain(wire[i]) =>
            LET r == IqRun([id |-> wire[i].id, capabilities |-> PayloadOf(wire[i].to)])
                F == wire[i].fullNode
            IN  \A p \in Peers :
                    ( /\ WaitsSince(p, F, i)
                      /\ Cached(F)
                      /\ UncachedExts(lastAnn[p]) = {ExtOf(wire[i])} )
                        => CountFor(r.emitted, p) >= 1

----------------------------------------------------------------------------
(* Node of the outgoing queries *)

\* every query sent has the fullNode of its presence as node when it is a
\* main query, and extNode of the tracked request when it is an extension
\* query
QueryNodesAre(extNode(_)) ==
    \A i \in 1..Len(wire) :
        IF wire[i].request.type = "caps"
        THEN wire[i].node = wire[i].request.node \o "#" \o wire[i].request.ver
        ELSE wire[i].node = extNode(wire[i].request)

\* C11 as stated: the node of every query sent is node#ver for a main query
\* and node#ver#ext for an extension query.
C11_ExtQueryNodeHasVer ==
    QueryNodesAre(LAMBDA request : request.fullNode \o "#" \o request.ext)

\* C11 amended: the node of every query sent is node#ver for a main query
\* and node#ext, without the ver, for an extension query.
C11_QueryNode ==
    QueryNodesAre(LAMBDA request : request.node \o "#" \o request.ext)

\* a main query for app#v1 and an extension query for app#e1 were sent
C11_Witness ==
    /\ \E i \in 1..Len(wire) : wire[i].request.type = "caps" /\ wire[i].node = "app#v1"
    /\ \E i \in 1..Len(wire) :
          /\ wire[i].request.type = "ext"
          /\ wire[i].fullNode = "app#v1"
          /\ wire[i].node = "app#e1"

----------------------------------------------------------------------------
(* Pending buddies *)

\* C12: once an event was emitted for a peer, the peer has no record in
\* _pendingBuddies until its next presence with something uncached, and no
\* response handled later emits for the peer again.
C12_ReleasedOnEmit ==
    \A p \in Peers :
        emitCount[p] >= 1 =>
            /\ p \notin DOMAIN handler.pendingBuddies
            /\ \A stanza \in AllIqStanzas : CountFor(IqRun(stanza).emitted, p) = 0

\* C13: after a peer announced again while its previous presence had no
\* event yet, every event emitted for the peer is built from its latest
\* presence, whether that presence was fully cached or not.
C13_LatestAnnouncementUsed ==
    \A stanza \in AllIqStanzas :
        \A ev \in Range(IqRun(stanza).emitted) :
            reannounced[ev.jid] => ev.presence.caps = lastAnn[ev.jid]

----------------------------------------------------------------------------
(* Error replies *)

\* the fullNodes, and the (fullNode, extension) pairs, that hold a value in
\* the caches of h
CachedNodes(h) == { F \in DOMAIN h.cache : Truthy(h.cache, F) }

CachedExtPairs(h) ==
    UNION { { <<F, E>> : E \in DOMAIN h.extCache[F] } : F \in DOMAIN h.extCache }

\* the query at position i of the wire is tracked in _iqRequests
Tracked(i) == wire[i].id \in DOMAIN handler.iqRequests

\* an error reply to the tracked query at position i of the wire is dropped:
\* its pending entry and its tracked id go away, the caches hold what they
\* held, and no exception escapes
ErrorDiscarded(i) ==
    LET r       == IqRun([id |-> wire[i].id, capabilities |-> Undefined])
        request == handler.iqRequests[wire[i].id]
        F       == request.fullNode
    IN  /\ ~r.threw
        /\ wire[i].id \notin DOMAIN r.iqRequests
        /\ CachedNodes(r) = CachedNodes(handler)
        /\ CachedExtPairs(r) = CachedExtPairs(handler)
        /\ IF request.type = "caps"
           THEN F \notin DOMAIN r.pending
           ELSE F \notin DOMAIN r.pendingExt \/ request.ext \notin DOMAIN r.pendingExt[F]

\* C14: an error reply (an iq stanza without stanza.capabilities) to a
\* tracked query, main or extension, clears the pending entry and the
\* tracked id, puts nothing in the caches and raises no exception.
C14_ErrorReplyDiscarded ==
    \A i \in 1..Len(wire) : Tracked(i) => ErrorDiscarded(i)

\* C15 as stated, for a peer that waited on a main query: once the query got
\* an error reply, no event is emitted for the peer until its next presence.
C15_StarvedForever ==
    \A p \in Peers : starved[p] = "caps" => emitCount[p] = 0

\* C15 amended: a peer that waited on a main or extension query answered by
\* an error reply gets no event, until its next presence, for as long as
\* the fullNode or an extension of its presence is not cached.
C15_StarvedWhileUncached ==
    \A p \in Peers :
        ( /\ starved[p] # "none"
          /\ ~(Cached(FullNode(lastAnn[p])) /\ AllExtsCached(lastAnn[p])) )
            => emitCount[p] = 0

\* after the error reply a result for another query emitted an event for
\* another peer, and the peer that waited still has none
C15_Witness ==
    /\ lastOp.op = "iq"
    /\ ~lastOp.error
    /\ lastOp.did.emitted >= 1
    /\ \E p \in Peers :
        /\ starved[p] # "none"
        /\ emitCount[p] = 0
        /\ ~(Cached(FullNode(lastAnn[p])) /\ AllExtsCached(lastAnn[p]))

----------------------------------------------------------------------------
(* Merging *)

\* the presence can be emitted: its fullNode and all its extensions are cached
Emittable(stanza) == Cached(FullNode(stanza.caps)) /\ AllExtsCached(stanza.caps)

\* C16: emitting the event of a presence changes neither the capability
\* cache nor the extension cache and sends no query: the handler is as
\* before but for the emitted event, and a response that emits leaves in
\* the caches exactly what it stored.
C16_EmitIsPureRead ==
    /\ \A stanza \in Presences :
          Emittable(stanza) =>
              LET r == _emitCapabilitiesEvent(handler, stanza)
              IN  /\ Len(r.emitted) = 1
                  /\ [r EXCEPT !.emitted = <<>>] = handler
    /\ \A i \in 1..Len(wire) :
          Tracked(i) =>
              LET c == PayloadOf(wire[i].to)
                  r == IqRun([id |-> wire[i].id, capabilities |-> c])
                  F == wire[i].fullNode
              IN  Len(r.emitted) >= 1 =>
                      /\ Len(r.out) = 0
                      /\ IF wire[i].request.type = "caps"
                         THEN /\ r.cache = Put(handler.cache, F, c)
                              /\ r.extCache = handler.extCache
                         ELSE /\ r.cache = handler.cache
                              /\ r.extCache = Put(handler.extCache, F,
                                                  Put(ExtCacheOf(handler, F),
                                                      wire[i].request.ext, c.rawFeatures))

\* an event was emitted for a peer whose presence lists an extension with
\* raw features other than the main ones, so that the emitted copy differs
\* from the cached capabilities
C16_Witness ==
    \E p \in Peers :
        /\ emitCount[p] >= 1
        /\ lastAnn[p] # Undefined
        /\ Emittable([from |-> p, caps |-> lastAnn[p]])
        /\ \E e \in Range(lastAnn[p].ext) :
              Range(handler.extCache[FullNode(lastAnn[p])][e])
                  # Range(handler.cache[FullNode(lastAnn[p])].rawFeatures)

\* the capabilities the event of a presence carries when it is emitted
\* against the caches of h
EventCaps(h, stanza) == _emitCapabilitiesEvent(Persistent(h), stanza).emitted[1].caps

\* C17: the event built for a presence that can be emitted carries the same
\* raw feature list and the same features map when it is built again after
\* any stanza was handled in between, in particular after the event of the
\* same presence was emitted a first time.
C17_MergeIdempotent ==
    \A stanza \in Presences :
        Emittable(stanza) =>
            /\ \A between \in Presences :
                  EventCaps(PresenceRun(between), stanza) = EventCaps(handler, stanza)
            /\ \A between \in AllIqStanzas :
                  EventCaps(IqRun(between), stanza) = EventCaps(handler, stanza)

\* both peers announced the same fullNode with the same extension and an
\* event was emitted for each
C17_Witness ==
    /\ \A p \in Peers : lastAnn[p] # Undefined /\ emitCount[p] >= 1
    /\ lastAnn["p1@x"] = lastAnn["p2@x"]
    /\ Len(lastAnn["p1@x"].ext) > 0
    /\ Emittable([from |-> "p1@x", caps |-> lastAnn["p1@x"]])

----------------------------------------------------------------------------
(* MemoryCache *)

\* C18 as stated: a save for a key that already holds a value is a no-op,
\* so the cache holds for every key the value of its first save.
C18_FirstWriteWins ==
    memoryCache = firstSaved

\* C18 amended: a save replaces whatever the key held: a get that follows
\* returns the value of the latest save, for saveCapabilities and for
\* saveExtension, and the other keys keep their values.
C18_LastWriteWins ==
    /\ \A node \in {"app#v1", "app#v2"}, caps \in Payloads :
          LET c == MemoryCache_saveCapabilities(memoryCache, node, caps)
          IN  /\ MemoryCache_getCapabilities(c, node) = caps
              /\ \A other \in DOMAIN memoryCache._capsCache \ {node} :
                    MemoryCache_getCapabilities(c, other) = memoryCache._capsCache[other]
              /\ c._extCache = memoryCache._extCache
    /\ \A node \in {"app#v1"}, ext \in {"e1", "e2"}, features \in FeatureLists :
          LET c == MemoryCache_saveExtension(memoryCache, node, ext, features)
              g == MemoryCache_getExtensions(c, node, <<"e1", "e2">>)
              b == MemoryCache_getExtensions(memoryCache, node, <<"e1", "e2">>)
          IN  /\ ext \in DOMAIN g.cachedExts
              /\ g.cachedExts[ext] = features
              /\ \A other \in DOMAIN b.cachedExts \ {ext} :
                    other \in DOMAIN g.cachedExts /\ g.cachedExts[other] = b.cachedExts[other]
              /\ c._capsCache = memoryCache._capsCache

\* a key was saved twice with different values and then read: the getter
\* returned the second value
C18_Witness ==
    /\ got # Undefined
    /\ "caps" \in DOMAIN got
    /\ got.node \in DOMAIN firstSaved._capsCache
    /\ got.caps # firstSaved._capsCache[got.node]
    /\ got.caps = memoryCache._capsCache[got.node]

----------------------------------------------------------------------------
(* Contents of the event *)

\* the events any stanza arriving in the current state would emit
NextEvents ==
    UNION { Range(PresenceRun(stanza).emitted) : stanza \in Presences } \cup
    UNION { Range(IqRun(stanza).emitted) : stanza \in AllIqStanzas }

\* the short names of the feature table
FeatureNames ==
    { "lastActivity", "muc", "byteStreams", "xhtml", "avatar", "version",
      "siFileTransfer", "mood", "rtpv0", "rtpv1", "rtpaudio", "rtpvideo",
      "attention", "bob", "googleCamera", "googleVideo", "googleVoice", "gmailNotify" }

\* C19: the features map of every event has exactly the short names of the
\* feature table as keys, and a name is true exactly when the raw feature
\* list of the event holds an identifier the table maps to it; raw features
\* <<"jabber:iq:version">> give version true and every other name false.
C19_FeaturesMatchRawList ==
    \A ev \in NextEvents :
        /\ DOMAIN ev.caps.features = FeatureNames
        /\ \A name \in FeatureNames :
              ev.caps.features[name] <=>
                  \E raw \in Range(ev.caps.rawFeatures) :
                      raw \in DOMAIN commonFeatures /\ commonFeatures[raw] = name
        /\ ev.caps.rawFeatures = <<"jabber:iq:version">> =>
              \A name \in FeatureNames : ev.caps.features[name] <=> name = "version"

\* the response to the one query sent is about to resolve a peer that
\* announced without extensions, with raw features <<"jabber:iq:version">>,
\* and another response resolved a peer whose extension added muc
C19_Witness ==
    /\ \E ev \in NextEvents : ev.caps.rawFeatures = <<"jabber:iq:version">>
    /\ \E p \in Peers :
          /\ emitCount[p] >= 1
          /\ lastAnn[p] # Undefined
          /\ Len(lastAnn[p].ext) > 0
          /\ Emittable([from |-> p, caps |-> lastAnn[p]])
          /\ ~handler.cache[FullNode(lastAnn[p])].features["muc"]
          /\ EventCaps(handler, [from |-> p, caps |-> lastAnn[p]]).features["muc"]

\* a sequence without repeated elements
NoDuplicates(seq) == \A i, j \in 1..Len(seq) : seq[i] = seq[j] => i = j

\* the raw features cached in h for the fullNode and the extensions of caps
CachedRawFeatures(h, caps) ==
    Range(h.cache[FullNode(caps)].rawFeatures) \cup
    UNION { Range(h.extCache[FullNode(caps)][e]) : e \in Range(caps.ext) }

\* the raw feature list of every event a handler run emitted has no
\* duplicates and holds what the caches hold for the event's presence
MergedRawFeatures(r) ==
    \A ev \in Range(r.emitted) :
        /\ NoDuplicates(ev.caps.rawFeatures)
        /\ Range(ev.caps.rawFeatures) = CachedRawFeatures(r, ev.presence.caps)

\* C20: the raw feature list of every event holds no identifier twice and,
\* as a set, is the union of the cached raw features of the fullNode and of
\* every extension listed in the presence the event is built from.
C20_RawFeaturesAreUnion ==
    /\ \A stanza \in Presences : MergedRawFeatures(PresenceRun(stanza))
    /\ \A stanza \in AllIqStanzas : MergedRawFeatures(IqRun(stanza))

\* an event was emitted for a presence whose extension shares a raw feature
\* with the main capabilities and adds another
C20_Witness ==
    \E p \in Peers :
        /\ emitCount[p] >= 1
        /\ lastAnn[p] # Undefined
        /\ Emittable([from |-> p, caps |-> lastAnn[p]])
        /\ \E e \in Range(lastAnn[p].ext) :
              LET main == Range(handler.cache[FullNode(lastAnn[p])].rawFeatures)
                  ext  == Range(handler.extCache[FullNode(lastAnn[p])][e])
              IN  main \cap ext # {} /\ ext \ main # {}

----------------------------------------------------------------------------
(* Tracking of requests *)

\* C21: no two queries sent by the handler, answered or not, have the same
\* id; the queries a presence sends get ids no earlier query had, different
\* from each other, and the counter advances by one per query sent.
C21_UniqueIds ==
    /\ \A i, j \in 1..Len(wire) : wire[i].id = wire[j].id => i = j
    /\ \A stanza \in Presences :
          LET r == PresenceRun(stanza)
          IN  /\ \A k \in 1..Len(r.out) :
                    /\ r.out[k].id \notin Ids(wire)
                    /\ \A l \in 1..Len(r.out) : r.out[k].id = r.out[l].id => k = l
              /\ r.iqCount = handler.iqCount + Len(r.out)

\* three queries were sent, one of them already answered and untracked,
\* another still tracked
C21_Witness ==
    /\ Len(wire) = 3
    /\ \E i \in 1..Len(wire) : wire[i].id \notin outstanding /\ ~Tracked(i)
    /\ \E i \in 1..Len(wire) : wire[i].id \in outstanding /\ Tracked(i)

----------------------------------------------------------------------------
(* Progress *)

\* every peer that sent a presence has got an event built from its latest one
AllResolved == \A p \in Peers : lastAnn[p] # Undefined => resolved[p]

\* C22: in a run where presences stop and every query sent gets a result,
\* from some point on every peer that sent a presence has an event built from
\* its latest presence; and whenever no query is unanswered, no such peer is
\* without that event.
C22_EventuallyResolved ==
    /\ [](outstanding = {} => AllResolved)
    /\ <>[]AllResolved

\* a peer sent a second presence while its first had no event yet, at least
\* two queries were sent, all are answered and the peer has the event
C22_Witness ==
    /\ outstanding = {}
    /\ Len(wire) >= 2
    /\ AllResolved
    /\ \E p \in Peers : reannounced[p] /\ resolved[p]

----------------------------------------------------------------------------
(* Caches and queries in flight *)

\* what a query asks for is in the caches of handler h
AskedIsCached(h, m) ==
    IF m.request.type = "caps"
    THEN Truthy(h.cache, m.fullNode)
    ELSE m.fullNode \in DOMAIN h.extCache /\ m.request.ext \in DOMAIN h.extCache[m.fullNode]

\* C23: no main query is unanswered for a fullNode whose capabilities are
\* cached, no extension query is unanswered for an extension of a fullNode
\* that is in the extension cache, and a presence sends queries only for
\* what is not cached when it arrives.
C23_CachedExcludesInFlight ==
    /\ \A F \in FullNodes : Cached(F) => OutstandingMain(F) = {}
    /\ \A F \in FullNodes, E \in Exts : ExtCached(F, E) => OutstandingExt(F, E) = {}
    /\ \A i \in Outstanding : ~AskedIsCached(handler, wire[i])
    /\ \A stanza \in Presences :
          LET sent == Sent(PresenceRun(stanza), stanza)
          IN  \A k \in 1..Len(sent) : ~AskedIsCached(handler, sent[k])

\* the capabilities of a fullNode and one of its extensions are cached while
\* the query for another of its extensions is unanswered
C23_Witness ==
    \E F \in FullNodes, E1, E2 \in Exts :
        /\ Cached(F)
        /\ ExtCached(F, E1)
        /\ OutstandingExt(F, E2) # {}

----------------------------------------------------------------------------
(* Tracked ids and pending entries *)

\* ids tracked in h for the main query of fullNode F
TrackedMain(h, F) ==
    { id \in DOMAIN h.iqRequests :
        h.iqRequests[id].type = "caps" /\ h.iqRequests[id].fullNode = F }

\* ids tracked in h for the query of extension E of fullNode F
TrackedExt(h, F, E) ==
    { id \in DOMAIN h.iqRequests :
        /\ h.iqRequests[id].type = "ext"
        /\ h.iqRequests[id].fullNode = F
        /\ h.iqRequests[id].ext = E }

PendingMain(h, F) == F \in DOMAIN h.pending

PendingExt(h, F, E) == F \in DOMAIN h.pendingExt /\ E \in DOMAIN h.pendingExt[F]

\* every tracked id has its pending entry and every pending entry has
\* exactly one tracked id
TrackedMatchesPending(h) ==
    /\ \A F \in FullNodes :
          /\ TrackedMain(h, F) # {} => PendingMain(h, F)
          /\ PendingMain(h, F) => Cardinality(TrackedMain(h, F)) = 1
    /\ \A F \in FullNodes, E \in Exts :
          /\ TrackedExt(h, F, E) # {} => PendingExt(h, F, E)
          /\ PendingExt(h, F, E) => Cardinality(TrackedExt(h, F, E)) = 1

\* handling the reply to tracked query i removes its id and its pending entry
RemovedTogether(i, stanza) ==
    LET r       == IqRun(stanza)
        request == wire[i].request
    IN  /\ stanza.id \notin DOMAIN r.iqRequests
        /\ IF request.type = "caps"
           THEN ~PendingMain(r, request.fullNode)
           ELSE ~PendingExt(r, request.fullNode, request.ext)

\* C24: tracked ids and pending entries correspond one to one, and handling
\* a reply to a tracked query, a result or an error, removes the id and the
\* pending entry of the query.
C24_TrackedMatchesPending ==
    /\ TrackedMatchesPending(handler)
    /\ \A i \in 1..Len(wire) :
          Tracked(i) =>
              \A c \in {PayloadOf(wire[i].to), Undefined} :
                  RemovedTogether(i, [id |-> wire[i].id, capabilities |-> c])

----------------------------------------------------------------------------
(* Pending records of the peers *)

\* the current pending record of peer p
RecordOf(p) == handler.objs[handler.pendingBuddies[p]]

\* the extensions whose pending arrays the record of peer p holds
PendingExtsOf(p) ==
    LET F == FullNode(RecordOf(p).originalPresence.caps)
    IN  { E \in Exts : /\ PendingExt(handler, F, E)
                       /\ handler.pendingExt[F][E] \in Range(RecordOf(p).pendingExts) }

\* every entry of the pendingExts of p's record is the array of a pending
\* extension of the record's fullNode that contains the record
EntriesAreWaiters(p) ==
    LET F == FullNode(RecordOf(p).originalPresence.caps)
    IN  \A a \in Range(RecordOf(p).pendingExts) :
            \E E \in Exts :
                /\ PendingExt(handler, F, E)
                /\ handler.pendingExt[F][E] = a
                /\ handler.pendingBuddies[p] \in Range(handler.arrs[a])

\* the query of every extension the record of p waits for is unanswered
EntriesInFlight(p) ==
    LET F == FullNode(RecordOf(p).originalPresence.caps)
    IN  \A E \in PendingExtsOf(p) : OutstandingExt(F, E) # {}

\* the record of p waits for exactly the extensions of its presence that
\* are not cached
EntriesAreUncached(p) ==
    PendingExtsOf(p) = UncachedExts(RecordOf(p).originalPresence.caps)

\* C25: for every peer with a pending record, every entry of the record's
\* pendingExts is the array of an extension query that is sent and not yet
\* answered, the array contains the record, and the entries are exactly the
\* extensions of the record's presence that are not cached.
C25_LedgerMatchesTracker ==
    \A p \in DOMAIN handler.pendingBuddies :
        /\ EntriesAreWaiters(p)
        /\ EntriesInFlight(p)
        /\ EntriesAreUncached(p)

====
